---- MODULE Spec2Model ----
(***************************************************************************)
(* Polymarket arbitrage scanner: the order-book and market models          *)
(* (models.py), the market listing and the bounded-concurrency batched     *)
(* fetcher (api.py), the arbitrage detectors and the scan orchestrator     *)
(* (scanner.py), and the command-line run around them (cli.py).            *)
(*                                                                         *)
(* Numbers.  Prices and profit fractions are fixed-point integers in units *)
(* of 1/2000 (0.0005), so 1.0 is 2000 and the default threshold 0.001 is   *)
(* 2; sizes are whole units.  Binary floating-point rounding of the        *)
(* source's float arithmetic is not modelled.                              *)
(*                                                                         *)
(* Python values.  A string taken from a JSON payload is a record          *)
(* [k, v]: k = "str" for the decimal text of the number v, "badstr" for a  *)
(* text float() rejects, "nokey" when the dict has no such key.  The       *)
(* outcome of an expression that may raise is a record with an exc field:  *)
(* "ok", or the name of the exception raised.                              *)
(***************************************************************************)
EXTENDS Integers, Sequences, FiniteSets, TLC

\* ------------------------------------------------------------ constants

\* The literal 1.0 the detectors compare against, in price units.
ONE == 2000

\* config.scanner.MIN_PROFIT_THRESHOLD, default "0.001", in price units.
MIN_PROFIT_THRESHOLD == 2

\* config.scanner.MIN_VOLUME, default "10000".
MIN_VOLUME == 10000


\* config.scanner.BATCH_SIZE (environment-configured; the model runs with 2).
BATCH_SIZE == 2

\* ------------------------------------------------------------ bounds

\* Longest token list handed to fetch_orderbooks_batch.
MaxTokens == 4

\* Most markets in one scan.
MaxMarkets == 2

\* Most outcome tokens of one market.
MaxOutcomes == 3

\* Most entries of one raw ladder handed to the OrderBook constructor.
MaxLevels == 2

\* Most token identifiers of a scan whose retrieval outcomes are fixed
\* beforehand.
MaxPlanned == 3


\* Token identifiers, by number.
TokenNames == << "t1", "t2", "t3", "t4", "t5", "t6", "t7", "t8" >>

\* The identifiers a token list handed to the fetcher alone is drawn from.
TokenIds == {TokenNames[1], TokenNames[2]}

\* ------------------------------------------------------------ Python values

Str(n) == [k |-> "str", v |-> n]
BadStr == [k |-> "badstr", v |-> 0]
NoKey == [k |-> "nokey", v |-> 0]

\* A number, Python's None, or a raised exception, as the outcome of an
\* expression of type float | None.
Val(n) == [exc |-> "ok", k |-> "num", v |-> n]
Absent == [exc |-> "ok", k |-> "none", v |-> 0]
Exc(e) == [exc |-> e, k |-> "none", v |-> 0]

\* float(x) for x a string of a payload.
PyFloat(x) == IF x.k = "str" THEN Val(x.v) ELSE Exc("ValueError")

\* d[key]: KeyError when the key is missing.
Subscript(x) == IF x.k = "nokey" THEN Exc("KeyError") ELSE PyFloat(x)

\* d.get(key, "0")
GetOrZero(x) == IF x.k = "nokey" THEN Str(0) ELSE x

\* One ladder entry {"price": p, "size": s}.
Entry(p, s) == [price |-> p, size |-> s]
E(p, s) == Entry(Str(p), Str(s))

Min(a, b) == IF b < a THEN b ELSE a

\* ------------------------------------------------------------ OrderBook

\* Mutant of SortKey: the price is read without the "0" default.
SortKeyNoDefault(e) == PyFloat(e.price)


\* The sort key of __post_init__: float(b.get("price", "0")).
SortKey(e) == PyFloat(GetOrZero(e.price))

\* sorted() is stable, also with reverse=True: an entry goes after every
\* entry already placed whose key does not have to follow it.
RECURSIVE InsertStable(_, _, _)
InsertStable(s, e, reverse) ==
    IF s = << >> THEN << e >>
    ELSE LET h == SortKey(Head(s)).v
             x == SortKey(e).v
             stays == IF reverse THEN h >= x ELSE h <= x
         IN IF stays THEN << Head(s) >> \o InsertStable(Tail(s), e, reverse)
            ELSE << e >> \o s

RECURSIVE SortedByPrice(_, _)
SortedByPrice(l, reverse) ==
    IF l = << >> THEN << >>
    ELSE InsertStable(SortedByPrice(SubSeq(l, 1, Len(l) - 1), reverse),
                      l[Len(l)], reverse)

EmptyBook(token_id) == [bids |-> << >>, asks |-> << >>, token_id |-> token_id]

\* OrderBook(bids, asks, token_id) with __post_init__: the key function runs
\* on every entry, so one unparsable price makes the construction raise.
OrderBook(bids, asks, token_id) ==
    IF \E i \in 1..Len(bids) : SortKey(bids[i]).exc # "ok"
    THEN [exc |-> "ValueError", book |-> EmptyBook(token_id)]
    ELSE IF \E i \in 1..Len(asks) : SortKey(asks[i]).exc # "ok"
    THEN [exc |-> "ValueError", book |-> EmptyBook(token_id)]
    ELSE [exc |-> "ok",
          book |-> [bids |-> SortedByPrice(bids, TRUE),
                    asks |-> SortedByPrice(asks, FALSE),
                    token_id |-> token_id]]

best_bid(book) ==
    IF book.bids = << >> THEN Absent ELSE Subscript(book.bids[1].price)

\* Mutant of best_ask: a truthiness test takes the price 0 for no price.
best_askZeroIsNone(book) ==
    IF book.asks = << >> THEN Absent
    ELSE LET x == Subscript(book.asks[1].price)
         IN IF x.exc = "ok" /\ x.v = 0 THEN Absent ELSE x


best_ask(book) ==
    IF book.asks = << >> THEN Absent ELSE Subscript(book.asks[1].price)

best_bid_size(book) ==
    IF book.bids = << >> THEN Absent ELSE Subscript(book.bids[1].size)

best_ask_size(book) ==
    IF book.asks = << >> THEN Absent ELSE Subscript(book.asks[1].size)

\* A decoded JSON body: a JSON object with its "bids"/"asks" lists (a
\* missing or null list reads as the empty list), or a JSON value that is
\* no object ("array"), which has no .get.
Payload(kind, bids, asks) == [kind |-> kind, bids |-> bids, asks |-> asks]

from_api_response(data, token_id) ==
    IF data.kind # "object"
    THEN [exc |-> "AttributeError", book |-> EmptyBook(token_id)]
    ELSE OrderBook(data.bids, data.asks, token_id)

\* ------------------------------------------------------------ fetcher

\* What one GET /book can come to: the exception raised by client.get,
\* raise_for_status or response.json, or the decoded body.
Response(kind, data) == [kind |-> kind, data |-> data]

NoData == Payload("none", << >>, << >>)

\* Bodies the order-book endpoint may deliver.
PayA == Payload("object", << E(1001, 4) >>, << E(1000, 1), E(999, 3) >>)
PayB == Payload("object", << E(0, 2), E(1001, 5) >>, << E(0, 2) >>)
PayNoSize == Payload("object", << >>, << Entry(Str(0), NoKey) >>)
PayBadPrice == Payload("object", << >>, << Entry(BadStr, Str(1)) >>)
PayArray == Payload("array", << >>, << >>)

Payloads == {PayA, PayB, PayNoSize, PayBadPrice, PayArray}

Responses ==
    {Response(kd, NoData) : kd \in {"timeout", "http_status", "transport", "bad_json"}}
    \cup {Response("json", d) : d \in Payloads}

\* The outcome of fetch_orderbook: a book, None, or an exception that no
\* except clause names.
Book(b) == [k |-> "book", book |-> b, exc |-> "ok"]
NoneBook == [k |-> "none", book |-> EmptyBook(""), exc |-> "ok"]
Raised(e) == [k |-> "raised", book |-> EmptyBook(""), exc |-> e]
Pending == [k |-> "pending", book |-> EmptyBook(""), exc |-> "ok"]

\* The exceptions fetch_orderbook catches while parsing.
CaughtParseErrors == {"JSONDecodeError", "KeyError", "ValueError", "TypeError"}

fetch_orderbook(resp, token_id) ==
    IF resp.kind = "timeout" THEN NoneBook
    ELSE IF resp.kind = "http_status" THEN NoneBook
    ELSE IF resp.kind = "transport" THEN NoneBook
    ELSE IF resp.kind = "bad_json" THEN NoneBook
    ELSE LET r == from_api_response(resp.data, token_id)
         IN IF r.exc = "ok" THEN Book(r.book)
            ELSE IF r.exc \in CaughtParseErrors THEN NoneBook
            ELSE Raised(r.exc)

\* Mutant of ResultDict: the `if orderbook is not None` filter is dropped.
ResultDictKeepNone(ids, res) ==
    LET last(t) == CHOOSE i \in 1..Len(ids) :
                        ids[i] = t /\ \A j \in 1..Len(ids) : ids[j] = t => j <= i
    IN [t \in {ids[i] : i \in 1..Len(ids)} |-> res[last(t)].book]

\* Mutant of ResultDict: the first successful pair of a key is kept.
ResultDictFirstWins(ids, res) ==
    LET ok == {i \in 1..Len(ids) : res[i].k = "book"}
        first(t) == CHOOSE i \in ok : ids[i] = t /\ \A j \in ok : ids[j] = t => i <= j
    IN [t \in {ids[i] : i \in ok} |-> res[first(t)].book]


\* The dict comprehension over the gathered (token_id, orderbook) pairs, in
\* input order: a later pair with the same key replaces an earlier one.
ResultDict(ids, res) ==
    LET ok == {i \in 1..Len(ids) : res[i].k = "book"}
        last(t) == CHOOSE i \in ok : ids[i] = t /\ \A j \in ok : ids[j] = t => j <= i
    IN [t \in {ids[i] : i \in ok} |-> res[last(t)].book]

NoBooks == [t \in {} |-> EmptyBook(t)]

\* No OrderBook constructed yet, no accessor read yet.
NotBuilt == [exc |-> "none", book |-> EmptyBook("")]
NotRead == [read |-> FALSE, best_bid |-> Absent, best_ask |-> Absent,
            best_bid_size |-> Absent, best_ask_size |-> Absent]

\* run() has not ended: no exit status, nothing on standard output.
Running == [done |-> FALSE, code |-> 0, printed |-> "nothing", rows |-> << >>]

VARIABLES
    markets,        \* scan_markets' argument: a sequence of markets
    token_ids,      \* fetch_orderbooks_batch's argument
    semaphore,      \* free slots of asyncio.Semaphore(BATCH_SIZE)
    task,           \* per position of token_ids: "waiting", "inflight", "done"
    results,        \* per position: what its _fetch_with_semaphore returned
    batch,          \* "idle", "running", "returned", "raised", "cancelled"
    orderbooks,     \* the mapping fetch_orderbooks_batch returned
    pc,             \* scan_markets: "start", "fetch", "detect", "returned", "raised",
                    \* "interrupted"
    idx,            \* scan_markets: the market the detection loop is at
    opportunities,  \* scan_markets: the list being accumulated, then returned
    books,          \* a detector call's books argument
    found,          \* a detector call's outcome
    data,           \* OrderBook.from_api_response's argument
    built,          \* the OrderBook constructed from data, or the exception
    reads,          \* what the four best_* accessors gave on built
    raw_markets,    \* the records of the Gamma API's listing response
    listed,         \* fetch_active_markets: "idle", "returned", "raised"
    outcome,        \* run(): exit status and standard output once ended
    plan,           \* per position of token_ids: the response its request will get
    overtaken       \* a retrieval has completed before one earlier in the list

vars == << markets, token_ids, semaphore, task, results, batch, orderbooks,
           pc, idx, opportunities, books, found, data, built, reads,
           raw_markets, listed, outcome, plan, overtaken >>

fetchVars == << token_ids, semaphore, task, results, batch, orderbooks >>
scanVars == << markets, pc, idx, opportunities >>
detectVars == << books, found >>
bookVars == << data, built, reads >>
listVars == << raw_markets, listed >>
planVars == << plan, overtaken >>

InFlight == {i \in DOMAIN task : task[i] = "inflight"}

\* Mutant of SlotFree: the counter test is off by one.
SlotFreeOffByOne(value) == value >= 0

\* Semaphore.acquire proceeds only while the counter is positive.
SlotFree(value) == value > 0

\* fetch_orderbooks_batch is entered: the semaphore is created and gather
\* schedules one _fetch_with_semaphore per position of token_ids.
BatchStart ==
    /\ batch = "idle"
    /\ pc = "fetch"
    /\ semaphore' = BATCH_SIZE
    /\ task' = [i \in 1..Len(token_ids) |-> "waiting"]
    /\ results' = [i \in 1..Len(token_ids) |-> Pending]
    /\ batch' = "running"
    /\ UNCHANGED << token_ids, orderbooks, scanVars, detectVars, bookVars, listVars, outcome, planVars >>

\* `async with semaphore`: a waiting task takes a free slot and issues its
\* request.
Acquire(i) ==
    /\ batch = "running"
    /\ task[i] = "waiting"
    /\ SlotFree(semaphore)
    /\ semaphore' = semaphore - 1
    /\ task' = [task EXCEPT ![i] = "inflight"]
    /\ UNCHANGED << token_ids, results, batch, orderbooks, scanVars, detectVars, bookVars, listVars, outcome, planVars >>

\* The request of position i finishes with response resp: fetch_orderbook
\* turns it into a book, None or an exception; the slot is released on the
\* way out of `async with` either way.  gather (return_exceptions left
\* False) hands the first exception to the awaiting caller.
Complete(i, resp) ==
    /\ batch = "running"
    /\ task[i] = "inflight"
    /\ LET r == fetch_orderbook(resp, token_ids[i])
       IN /\ results' = [results EXCEPT ![i] = r]
          /\ batch' = IF r.k = "raised" THEN "raised" ELSE batch
    /\ semaphore' = semaphore + 1
    /\ task' = [task EXCEPT ![i] = "done"]
    /\ UNCHANGED << token_ids, orderbooks, scanVars, detectVars, bookVars, listVars, outcome, planVars >>

\* Every task has returned: gather yields the results in input order and the
\* mapping of the successful ones is returned.
BatchReturn ==
    /\ batch = "running"
    /\ \A i \in DOMAIN task : task[i] = "done"
    /\ orderbooks' = ResultDict(token_ids, results)
    /\ batch' = "returned"
    /\ UNCHANGED << token_ids, semaphore, task, results, scanVars, detectVars, bookVars, listVars, outcome, planVars >>

\* ------------------------------------------------------------ fetcher alone

RECURSIVE SeqsUpTo(_, _)
SeqsUpTo(S, n) ==
    IF n = 0 THEN {<< >>}
    ELSE LET shorter == SeqsUpTo(S, n - 1)
         IN shorter \cup {Append(s, x) : s \in {t \in shorter : Len(t) = n - 1}, x \in S}

NoCall == [call |-> "none", exc |-> "ok", opps |-> << >>]

InitFetch ==
    /\ token_ids \in SeqsUpTo(TokenIds, MaxTokens)
    /\ markets = << >>
    /\ semaphore = 0
    /\ task = << >>
    /\ results = << >>
    /\ batch = "idle"
    /\ orderbooks = NoBooks
    /\ pc = "fetch"
    /\ idx = 0
    /\ opportunities = << >>
    /\ books = << >>
    /\ found = NoCall
    /\ data = NoData
    /\ built = NotBuilt
    /\ reads = NotRead
    /\ raw_markets = << >>
    /\ listed = "idle"
    /\ outcome = Running
    /\ plan = << >>
    /\ overtaken = FALSE

NextFetch ==
    \/ BatchStart
    \/ \E i \in DOMAIN task : Acquire(i)
    \/ \E i \in DOMAIN task : \E resp \in Responses : Complete(i, resp)
    \/ BatchReturn

SpecFetch == InitFetch /\ [][NextFetch]_vars

\* The fetcher alone under the event loop's scheduling: a ready coroutine is
\* run, the semaphore wakes its waiters in turn whenever slots keep being
\* released, and every retrieval in flight finishes.
SpecFetchFair ==
    /\ InitFetch
    /\ [][NextFetch]_vars
    /\ WF_vars(BatchStart)
    /\ \A i \in 1..MaxTokens : SF_vars(i \in DOMAIN task /\ Acquire(i))
    /\ \A i \in 1..MaxTokens :
          WF_vars(i \in DOMAIN task /\ \E resp \in Responses : Complete(i, resp))
    /\ WF_vars(BatchReturn)

\* ------------------------------------------------------------ detectors

Opportunity(question, arb_type, profit_pct, max_size, yes_price, no_price) ==
    [market_question |-> question, arb_type |-> arb_type, profit_pct |-> profit_pct,
     max_size |-> max_size, max_profit_usd |-> profit_pct * max_size,
     yes_price |-> yes_price, no_price |-> no_price]

\* What a detector call comes to: the list it returns, or the exception that
\* leaves it.
Returns(call, opps) == [call |-> call, exc |-> "ok", opps |-> opps]
Raises(call, e) == [call |-> call, exc |-> e, opps |-> << >>]

RECURSIVE SumV(_)
SumV(vals) == IF vals = << >> THEN 0 ELSE Head(vals).v + SumV(Tail(vals))

\* Mutant of MinV: the size of the first book is taken for the minimum.
MinVFirst(vals) == vals[1].v

RECURSIVE MinV(_)
MinV(vals) ==
    IF Len(vals) = 1 THEN vals[1].v ELSE Min(Head(vals).v, MinV(Tail(vals)))

\* The exception of the first expression of vals that raises, "ok" if none.
FirstExc(vals) ==
    LET bad == {i \in 1..Len(vals) : vals[i].exc # "ok"}
    IN IF bad = {} THEN "ok"
       ELSE vals[CHOOSE i \in bad : \A j \in bad : i <= j].exc

\* all(x is not None for x in vals), evaluated left to right and stopping at
\* the first None: an expression after it is never evaluated.
AllNotNone(vals) ==
    LET stop == {i \in 1..Len(vals) : vals[i].exc # "ok" \/ vals[i].k = "none"}
    IN IF stop = {} THEN [exc |-> "ok", all |-> TRUE]
       ELSE [exc |-> vals[CHOOSE i \in stop : \A j \in stop : i <= j].exc,
             all |-> FALSE]

\* Buy side of check_binary_arbitrage (scanner.py 41-75).
BinaryBuy(question, yes_book, no_book) ==
    LET yes_ask == best_ask(yes_book)
        no_ask == best_ask(no_book)
        combined_ask == yes_ask.v + no_ask.v
        profit_pct == ONE - combined_ask
        sizes == << best_ask_size(yes_book), best_ask_size(no_book) >>
    IN IF FirstExc(<< yes_ask, no_ask >>) # "ok"
       THEN Raises("binary", FirstExc(<< yes_ask, no_ask >>))
       ELSE IF yes_ask.k = "none" \/ no_ask.k = "none" THEN Returns("binary", << >>)
       ELSE IF ~(combined_ask < ONE) THEN Returns("binary", << >>)
       ELSE IF ~(profit_pct >= MIN_PROFIT_THRESHOLD) THEN Returns("binary", << >>)
       ELSE IF FirstExc(sizes) # "ok" THEN Raises("binary", FirstExc(sizes))
       ELSE Returns("binary",
                << Opportunity(question, "BUY", profit_pct, MinV(sizes),
                               yes_ask.v, no_ask.v) >>)

\* Sell side of check_binary_arbitrage (scanner.py 77-111).
BinarySell(question, yes_book, no_book) ==
    LET yes_bid == best_bid(yes_book)
        no_bid == best_bid(no_book)
        combined_bid == yes_bid.v + no_bid.v
        profit_pct == combined_bid - ONE
        sizes == << best_bid_size(yes_book), best_bid_size(no_book) >>
    IN IF FirstExc(<< yes_bid, no_bid >>) # "ok"
       THEN Raises("binary", FirstExc(<< yes_bid, no_bid >>))
       ELSE IF yes_bid.k = "none" \/ no_bid.k = "none" THEN Returns("binary", << >>)
       ELSE IF ~(combined_bid > ONE) THEN Returns("binary", << >>)
       ELSE IF ~(profit_pct >= MIN_PROFIT_THRESHOLD) THEN Returns("binary", << >>)
       ELSE IF FirstExc(sizes) # "ok" THEN Raises("binary", FirstExc(sizes))
       ELSE Returns("binary",
                << Opportunity(question, "SELL", profit_pct, MinV(sizes),
                               yes_bid.v, no_bid.v) >>)

\* The buy side runs first; an exception on it leaves the function before
\* the sell side is looked at.
check_binary_arbitrage(question, yes_book, no_book) ==
    LET buy == BinaryBuy(question, yes_book, no_book)
        sell == BinarySell(question, yes_book, no_book)
    IN IF buy.exc # "ok" THEN buy
       ELSE IF sell.exc # "ok" THEN sell
       ELSE Returns("binary", buy.opps \o sell.opps)

\* Buy side of check_multi_outcome_arbitrage (scanner.py 136-171).
MultiBuy(question, bks) ==
    LET asks == [i \in 1..Len(bks) |-> best_ask(bks[i])]
        all_asks_valid == AllNotNone(asks)
        sum_of_asks == SumV(asks)
        profit_pct == ONE - sum_of_asks
        sizes == [i \in 1..Len(bks) |-> best_ask_size(bks[i])]
    IN IF all_asks_valid.exc # "ok" THEN Raises("multi", all_asks_valid.exc)
       ELSE IF ~all_asks_valid.all THEN Returns("multi", << >>)
       ELSE IF ~(sum_of_asks < ONE) THEN Returns("multi", << >>)
       ELSE IF ~(profit_pct >= MIN_PROFIT_THRESHOLD) THEN Returns("multi", << >>)
       ELSE IF FirstExc(sizes) # "ok" THEN Raises("multi", FirstExc(sizes))
       ELSE Returns("multi",
                << Opportunity(question, "MULTI", profit_pct, MinV(sizes),
                               sum_of_asks, 0) >>)

\* Sell side of check_multi_outcome_arbitrage (scanner.py 173-208).
MultiSell(question, bks) ==
    LET bids == [i \in 1..Len(bks) |-> best_bid(bks[i])]
        all_bids_valid == AllNotNone(bids)
        sum_of_bids == SumV(bids)
        profit_pct == sum_of_bids - ONE
        sizes == [i \in 1..Len(bks) |-> best_bid_size(bks[i])]
    IN IF all_bids_valid.exc # "ok" THEN Raises("multi", all_bids_valid.exc)
       ELSE IF ~all_bids_valid.all THEN Returns("multi", << >>)
       ELSE IF ~(sum_of_bids > ONE) THEN Returns("multi", << >>)
       ELSE IF ~(profit_pct >= MIN_PROFIT_THRESHOLD) THEN Returns("multi", << >>)
       ELSE IF FirstExc(sizes) # "ok" THEN Raises("multi", FirstExc(sizes))
       ELSE Returns("multi",
                << Opportunity(question, "MULTI", profit_pct, MinV(sizes),
                               0, sum_of_bids) >>)

check_multi_outcome_arbitrage(question, bks) ==
    LET buy == MultiBuy(question, bks)
        sell == MultiSell(question, bks)
    IN IF buy.exc # "ok" THEN buy
       ELSE IF sell.exc # "ok" THEN sell
       ELSE Returns("multi", buy.opps \o sell.opps)

\* ------------------------------------------------------------ detectors alone

\* Ladders the books under test are constructed from.
DetectPayloads ==
    {PayA, PayB, PayNoSize,
     Payload("object", << E(1000, 5) >>, << E(1000, 1) >>),
     Payload("object", << >>, << >>),
     Payload("object", << >>, << E(999, 3) >>),
     Payload("object", << E(0, 2) >>, << >>),
     Payload("object", << E(1001, 4) >>, << Entry(NoKey, Str(1)) >>),
     Payload("object", << Entry(Str(1001), BadStr) >>, << E(999, 3) >>)}

DetectBooks == {OrderBook(d.bids, d.asks, TokenNames[1]).book : d \in DetectPayloads}

SeqsOfLen(S, lo, hi) == {s \in SeqsUpTo(S, hi) : Len(s) >= lo}

InitDetect ==
    /\ books \in SeqsOfLen(DetectBooks, 2, MaxOutcomes)
    /\ found = NoCall
    /\ data = NoData
    /\ built = NotBuilt
    /\ reads = NotRead
    /\ raw_markets = << >>
    /\ listed = "idle"
    /\ outcome = Running
    /\ plan = << >>
    /\ overtaken = FALSE
    /\ markets = << >>
    /\ token_ids = << >>
    /\ semaphore = 0
    /\ task = << >>
    /\ results = << >>
    /\ batch = "idle"
    /\ orderbooks = NoBooks
    /\ pc = "detector"
    /\ idx = 0
    /\ opportunities = << >>

\* A binary market's two books are checked.
CallBinary ==
    /\ pc = "detector"
    /\ found.call = "none"
    /\ Len(books) = 2
    /\ found' = check_binary_arbitrage("m", books[1], books[2])
    /\ UNCHANGED << books, fetchVars, scanVars, bookVars, listVars, outcome, planVars >>

\* The books of a market with three or more outcomes are checked.
CallMulti ==
    /\ pc = "detector"
    /\ found.call = "none"
    /\ Len(books) >= 3
    /\ found' = check_multi_outcome_arbitrage("m", books)
    /\ UNCHANGED << books, fetchVars, scanVars, bookVars, listVars, outcome, planVars >>

NextDetect == CallBinary \/ CallMulti

SpecDetect == InitDetect /\ [][NextDetect]_vars

\* ------------------------------------------------------------ scan_markets

Market(question, tokens) == [question |-> question, tokens |-> tokens]

\* Lines 229-232: the token identifiers of all markets, in market order.
RECURSIVE AllTokenIds(_)
AllTokenIds(ms) ==
    IF ms = << >> THEN << >> ELSE Head(ms).tokens \o AllTokenIds(Tail(ms))

\* The books of a market's tokens, looked up in token order up to the first
\* token the mapping lacks (orderbooks.get(...) is None).
LookupBooks(tokens, obs) ==
    LET gone == {i \in 1..Len(tokens) : tokens[i] \notin DOMAIN obs}
        upto == IF gone = {} THEN Len(tokens)
                ELSE (CHOOSE i \in gone : \A j \in gone : i <= j) - 1
    IN [missing |-> gone # {}, books |-> [i \in 1..upto |-> obs[tokens[i]]]]

\* Mutant of ProcessMarket: the multi-outcome branch forgets
\* `if missing_book: continue` and checks the books found before the gap.
ProcessMarketPartial(market, obs) ==
    LET num_outcomes == Len(market.tokens)
        got == LookupBooks(market.tokens, obs)
    IN IF num_outcomes = 2
       THEN IF got.missing THEN Returns("skip", << >>)
            ELSE check_binary_arbitrage(market.question, got.books[1], got.books[2])
       ELSE IF num_outcomes >= 3
       THEN IF got.books = << >> THEN Returns("skip", << >>)
            ELSE check_multi_outcome_arbitrage(market.question, got.books)
       ELSE Returns("invalid", << >>)

\* Mutant of ProcessMarket: the binary check gets the second token's book as
\* side A and the first's as side B.
ProcessMarketSwapped(market, obs) ==
    LET num_outcomes == Len(market.tokens)
        got == LookupBooks(market.tokens, obs)
    IN IF num_outcomes = 2
       THEN IF got.missing THEN Returns("skip", << >>)
            ELSE check_binary_arbitrage(market.question, got.books[2], got.books[1])
       ELSE IF num_outcomes >= 3
       THEN IF got.missing THEN Returns("skip", << >>)
            ELSE check_multi_outcome_arbitrage(market.question, got.books)
       ELSE Returns("invalid", << >>)


\* One pass of the loop over markets (lines 253-302): what the market adds
\* to the list, or the exception its detector raises.
ProcessMarket(market, obs) ==
    LET num_outcomes == Len(market.tokens)
        got == LookupBooks(market.tokens, obs)
    IN IF num_outcomes = 2
       THEN IF got.missing THEN Returns("skip", << >>)
            ELSE check_binary_arbitrage(market.question, got.books[1], got.books[2])
       ELSE IF num_outcomes >= 3
       THEN IF got.missing THEN Returns("skip", << >>)
            ELSE check_multi_outcome_arbitrage(market.question, got.books)
       ELSE Returns("invalid", << >>)

\* Mutant of InsertByProfit: an entry is placed before the entries of equal
\* profit, which reverses ties.
RECURSIVE InsertByProfitUnstable(_, _)
InsertByProfitUnstable(s, o) ==
    IF s = << >> THEN << o >>
    ELSE IF Head(s).profit_pct > o.profit_pct
         THEN << Head(s) >> \o InsertByProfitUnstable(Tail(s), o)
         ELSE << o >> \o s

\* Mutant of SortByProfit: the list is returned in discovery order.
SortByProfitSkipped(l) == l

\* list.sort(key=lambda o: o.profit_pct, reverse=True): stable.
RECURSIVE InsertByProfit(_, _)
InsertByProfit(s, o) ==
    IF s = << >> THEN << o >>
    ELSE IF Head(s).profit_pct >= o.profit_pct
         THEN << Head(s) >> \o InsertByProfit(Tail(s), o)
         ELSE << o >> \o s

RECURSIVE SortByProfit(_)
SortByProfit(l) ==
    IF l = << >> THEN << >>
    ELSE InsertByProfit(SortByProfit(SubSeq(l, 1, Len(l) - 1)), l[Len(l)])

\* scan_markets collects the token identifiers of its markets.
ScanCollect ==
    /\ pc = "start"
    /\ token_ids' = AllTokenIds(markets)
    /\ pc' = "fetch"
    /\ UNCHANGED << markets, idx, opportunities, semaphore, task, results, batch,
                    orderbooks, detectVars, bookVars, listVars, outcome, planVars >>

\* Mutant of ScanResume: the detection pass does not wait for the batch call
\* to return.
ScanResumeEarly ==
    /\ pc = "fetch"
    /\ batch \in {"running", "returned"}
    /\ pc' = "detect"
    /\ idx' = 1
    /\ opportunities' = << >>
    /\ UNCHANGED << markets, fetchVars, detectVars, bookVars, listVars, outcome, planVars >>


\* The awaited batch call returns its mapping: the detection pass begins.
ScanResume ==
    /\ pc = "fetch"
    /\ batch = "returned"
    /\ pc' = "detect"
    /\ idx' = 1
    /\ opportunities' = << >>
    /\ UNCHANGED << markets, fetchVars, detectVars, bookVars, listVars, outcome, planVars >>

\* The awaited batch call raises: nothing in scan_markets catches it.
ScanAbort ==
    /\ pc = "fetch"
    /\ batch = "raised"
    /\ pc' = "raised"
    /\ UNCHANGED << markets, idx, opportunities, fetchVars, detectVars, bookVars, listVars, outcome, planVars >>

\* The loop body for the market at idx.
MarketStep ==
    /\ pc = "detect"
    /\ idx <= Len(markets)
    /\ LET r == ProcessMarket(markets[idx], orderbooks)
       IN IF r.exc # "ok"
          THEN /\ pc' = "raised"
               /\ UNCHANGED << idx, opportunities, planVars >>
          ELSE /\ opportunities' = opportunities \o r.opps
               /\ idx' = idx + 1
               /\ pc' = pc
    /\ UNCHANGED << markets, fetchVars, detectVars, bookVars, listVars, outcome, planVars >>

\* After the last market the list is sorted in place and returned.
ScanReturn ==
    /\ pc = "detect"
    /\ idx > Len(markets)
    /\ opportunities' = SortByProfit(opportunities)
    /\ pc' = "returned"
    /\ UNCHANGED << markets, idx, fetchVars, detectVars, bookVars, listVars, outcome, planVars >>

\* ------------------------------------------------------------ run()

\* Mutant of RunOutcome: an interrupted run reports what the scan had
\* found so far as if the scan had returned.
RunOutcomeFlushes(how, opps) ==
    IF how = "raised"
    THEN [done |-> TRUE, code |-> 1, printed |-> "nothing", rows |-> << >>]
    ELSE IF opps # << >>
    THEN [done |-> TRUE, code |-> 0, printed |-> "table", rows |-> SortByProfit(opps)]
    ELSE [done |-> TRUE, code |-> 1, printed |-> "none_found", rows |-> << >>]

\* How run() ends (cli.py): after scan_markets returned, the table of the
\* opportunities, sorted again, and status 0, or "No arbitrage opportunities
\* found." and status 1; on KeyboardInterrupt status 130 with nothing
\* printed (the except clause returns 130; a KeyboardInterrupt that
\* asyncio.run re-raises past run() ends the interpreter on SIGINT, which
\* the shell reports as 130 too); any other exception leaves run() and the
\* interpreter exits with status 1 and a traceback on standard error.
RunOutcome(how, opps) ==
    IF how = "interrupted"
    THEN [done |-> TRUE, code |-> 130, printed |-> "nothing", rows |-> << >>]
    ELSE IF how = "raised"
    THEN [done |-> TRUE, code |-> 1, printed |-> "nothing", rows |-> << >>]
    ELSE IF opps # << >>
    THEN [done |-> TRUE, code |-> 0, printed |-> "table", rows |-> SortByProfit(opps)]
    ELSE [done |-> TRUE, code |-> 1, printed |-> "none_found", rows |-> << >>]

\* scan_markets has returned its list to run(), which prints and returns.
RunFinish ==
    /\ pc = "returned"
    /\ ~outcome.done
    /\ outcome' = RunOutcome("returned", opportunities)
    /\ UNCHANGED << scanVars, fetchVars, detectVars, bookVars, listVars, planVars >>

\* The exception scan_markets raised leaves run() uncaught.
RunCrash ==
    /\ pc = "raised"
    /\ ~outcome.done
    /\ outcome' = RunOutcome("raised", << >>)
    /\ UNCHANGED << scanVars, fetchVars, detectVars, bookVars, listVars, planVars >>

\* The user interrupts while scan_markets has not returned: the awaited
\* batch call and its tasks are cancelled and their frames unwound; the
\* list the detection pass had accumulated is never returned.
RunInterrupt ==
    /\ pc \in {"start", "fetch", "detect"}
    /\ ~outcome.done
    /\ pc' = "interrupted"
    /\ outcome' = RunOutcome("interrupted", opportunities)
    /\ batch' = IF batch = "idle" THEN "idle" ELSE "cancelled"
    /\ semaphore' = 0
    /\ task' = << >>
    /\ results' = << >>
    /\ orderbooks' = NoBooks
    /\ UNCHANGED << markets, idx, opportunities, token_ids, detectVars, bookVars,
                    listVars, planVars >>


QuestionNames == << "m1", "m2", "m3", "m4" >>

RECURSIVE SumN(_)
SumN(ns) == IF ns = << >> THEN 0 ELSE Head(ns) + SumN(Tail(ns))

\* Markets with the outcome counts of shape, their tokens numbered through.
MarketsOfShape(shape) ==
    [m \in 1..Len(shape) |->
        Market(QuestionNames[m],
               [j \in 1..shape[m] |-> TokenNames[SumN(SubSeq(shape, 1, m - 1)) + j]])]

\* The scans explored: up to MaxMarkets markets of 0..MaxOutcomes outcome
\* tokens each and MaxTokens tokens in all, every token its own identifier.
MarketLists ==
    {MarketsOfShape(shape) :
        shape \in {sh \in SeqsUpTo(0..MaxOutcomes, MaxMarkets) : SumN(sh) <= MaxTokens}}

Init ==
    /\ markets \in MarketLists
    /\ token_ids = << >>
    /\ semaphore = 0
    /\ task = << >>
    /\ results = << >>
    /\ batch = "idle"
    /\ orderbooks = NoBooks
    /\ pc = "start"
    /\ idx = 0
    /\ opportunities = << >>
    /\ books = << >>
    /\ found = NoCall
    /\ data = NoData
    /\ built = NotBuilt
    /\ reads = NotRead
    /\ raw_markets = << >>
    /\ listed = "idle"
    /\ outcome = Running
    /\ plan = << >>
    /\ overtaken = FALSE

Next ==
    \/ ScanCollect
    \/ BatchStart
    \/ \E i \in DOMAIN task : Acquire(i)
    \/ \E i \in DOMAIN task : \E resp \in Responses : Complete(i, resp)
    \/ BatchReturn
    \/ ScanResume
    \/ ScanAbort
    \/ MarketStep
    \/ ScanReturn
    \/ RunFinish
    \/ RunCrash
    \/ RunInterrupt

Spec == Init /\ [][Next]_vars

\* ------------------------------------------------------------ OrderBook alone

\* Ladder entries a payload may carry: priced ones (one at price 0), one
\* without a price key, one without a size key, one whose price is no
\* number.
RawEntries ==
    {E(0, 2), E(999, 3), E(1001, 4),
     Entry(NoKey, Str(5)), Entry(Str(1000), NoKey), Entry(BadStr, Str(1))}

RawLadders == SeqsUpTo(RawEntries, MaxLevels)

InitBook ==
    /\ data \in {Payload("object", b, a) : b \in RawLadders, a \in RawLadders}
    /\ built = NotBuilt
    /\ reads = NotRead
    /\ markets = << >>
    /\ token_ids = << >>
    /\ semaphore = 0
    /\ task = << >>
    /\ results = << >>
    /\ batch = "idle"
    /\ orderbooks = NoBooks
    /\ pc = "book"
    /\ idx = 0
    /\ opportunities = << >>
    /\ books = << >>
    /\ found = NoCall
    /\ raw_markets = << >>
    /\ listed = "idle"
    /\ outcome = Running
    /\ plan = << >>
    /\ overtaken = FALSE

\* OrderBook.from_api_response(data, token_id): the ladders are sorted by
\* __post_init__, or the construction raises.
Construct ==
    /\ pc = "book"
    /\ built = NotBuilt
    /\ built' = from_api_response(data, TokenNames[1])
    /\ UNCHANGED << data, reads, fetchVars, scanVars, detectVars, listVars, outcome, planVars >>

\* A property read: the value, None, or the exception the property raises.
Read(value) == [read |-> TRUE, best_bid |-> value.best_bid, best_ask |-> value.best_ask,
                best_bid_size |-> value.best_bid_size,
                best_ask_size |-> value.best_ask_size]

\* The four best_* properties of the constructed book are read.
ReadBest ==
    /\ pc = "book"
    /\ built.exc = "ok"
    /\ ~reads.read
    /\ reads' = Read([best_bid |-> best_bid(built.book),
                      best_ask |-> best_ask(built.book),
                      best_bid_size |-> best_bid_size(built.book),
                      best_ask_size |-> best_ask_size(built.book)])
    /\ UNCHANGED << data, built, fetchVars, scanVars, detectVars, listVars, outcome, planVars >>

NextBook == Construct \/ ReadBest

SpecBook == InitBook /\ [][NextBook]_vars


\* ------------------------------------------------------------ market listing

\* A text field of a Gamma record that holds embedded JSON: the text of a
\* JSON list, a text json.loads rejects, the empty text, or no such key.
JsonList(items) == [k |-> "list", items |-> items]
BadJson == [k |-> "badjson", items |-> << >>]
EmptyText == [k |-> "empty", items |-> << >>]
NoJsonKey == [k |-> "nokey", items |-> << >>]

\* json.loads(text): the decoded list, or JSONDecodeError.
JsonLoads(text) ==
    IF text.k = "list" THEN [exc |-> "ok", items |-> text.items]
    ELSE [exc |-> "JSONDecodeError", items |-> << >>]

\* data.get(key, "[]")
GetOrEmptyList(text) == IF text.k = "nokey" THEN JsonList(<< >>) ELSE text

\* zip(token_ids, outcomes): as many pairs as the shorter list has; a token
\* is kept as its identifier.
Zip(token_ids_list, outcomes) ==
    SubSeq(token_ids_list, 1, Min(Len(token_ids_list), Len(outcomes)))

\* One raw record of the listing response; conditionId and question are ""
\* when the record has no such key.
RawMarket(conditionId, question, volume, clobTokenIds, outcomePrices, outcomes) ==
    [conditionId |-> conditionId, question |-> question, volume |-> volume,
     clobTokenIds |-> clobTokenIds, outcomePrices |-> outcomePrices,
     outcomes |-> outcomes]

NoMarket == [k |-> "none", market |-> Market("", << >>)]

\* Market.from_gamma_response(data): the Market, or None when a required key
\* is missing or a field does not parse (every such exception is caught).
from_gamma_response(raw) ==
    IF raw.conditionId = "" \/ raw.question = "" THEN NoMarket
    ELSE IF PyFloat(GetOrZero(raw.volume)).exc # "ok" THEN NoMarket
    ELSE IF raw.clobTokenIds.k = "nokey" THEN NoMarket
    ELSE IF JsonLoads(raw.clobTokenIds).exc # "ok" THEN NoMarket
    ELSE IF JsonLoads(GetOrEmptyList(raw.outcomePrices)).exc # "ok" THEN NoMarket
    ELSE IF JsonLoads(GetOrEmptyList(raw.outcomes)).exc # "ok" THEN NoMarket
    ELSE [k |-> "market",
          market |-> Market(raw.question,
                            Zip(JsonLoads(raw.clobTokenIds).items,
                                JsonLoads(GetOrEmptyList(raw.outcomes)).items))]

\* The loop of fetch_active_markets over the records: a record below the
\* minimum volume, without token-id text, or that does not parse is left
\* out; a volume float() rejects raises out of the loop.
RECURSIVE ListMarkets(_)
ListMarkets(raws) ==
    IF raws = << >> THEN [exc |-> "ok", markets |-> << >>]
    ELSE LET raw == Head(raws)
             volume == PyFloat(GetOrZero(raw.volume))
             rest == ListMarkets(Tail(raws))
             parsed == from_gamma_response(raw)
             kept == IF volume.v < MIN_VOLUME THEN << >>
                     ELSE IF raw.clobTokenIds.k \in {"nokey", "empty"} THEN << >>
                     ELSE IF parsed.k = "none" THEN << >>
                     ELSE << parsed.market >>
         IN IF volume.exc # "ok" THEN [exc |-> volume.exc, markets |-> << >>]
            ELSE IF rest.exc # "ok" THEN rest
            ELSE [exc |-> "ok", markets |-> kept \o rest.markets]

\* The token-id and outcome lists a record may carry.
IdLists == {[j \in 1..n |-> TokenNames[j]] : n \in 0..MaxOutcomes}
OutcomeNames == << "Yes", "No", "Maybe", "Other", "Else" >>
OutcomeLists == {[j \in 1..n |-> OutcomeNames[j]] : n \in 0..MaxOutcomes}

\* Records the listing may deliver: every pairing of a token-id list with an
\* outcome list, and records with one field missing or unreadable.
RawMarkets ==
    {RawMarket("c", "m", Str(20000), JsonList(ids), JsonList(<< >>), JsonList(outs)) :
        ids \in IdLists, outs \in OutcomeLists}
    \cup {RawMarket("c", "m", Str(20000), JsonList(ids), JsonList(<< >>), NoJsonKey) :
             ids \in IdLists}
    \cup {RawMarket("c", "m", vol, JsonList(<< "t1", "t2" >>), NoJsonKey,
                    JsonList(<< "Yes", "No" >>)) :
             vol \in {Str(5000), NoKey, BadStr}}
    \cup {RawMarket("c", "m", Str(20000), ids, JsonList(<< >>),
                    JsonList(<< "Yes", "No" >>)) :
             ids \in {BadJson, EmptyText, NoJsonKey}}
    \cup {RawMarket("", "m", Str(20000), JsonList(<< "t1", "t2" >>), JsonList(<< >>),
                    JsonList(<< "Yes", "No" >>)),
          RawMarket("c", "", Str(20000), JsonList(<< "t1", "t2" >>), JsonList(<< >>),
                    JsonList(<< "Yes", "No" >>)),
          RawMarket("c", "m", Str(20000), JsonList(<< "t1", "t2" >>), BadJson,
                    JsonList(<< "Yes", "No" >>)),
          RawMarket("c", "m", Str(20000), JsonList(<< "t1", "t2" >>), JsonList(<< >>),
                    BadJson)}

InitListing ==
    /\ raw_markets \in SeqsUpTo(RawMarkets, MaxMarkets)
    /\ listed = "idle"
    /\ markets = << >>
    /\ token_ids = << >>
    /\ semaphore = 0
    /\ task = << >>
    /\ results = << >>
    /\ batch = "idle"
    /\ orderbooks = NoBooks
    /\ pc = "listing"
    /\ idx = 0
    /\ opportunities = << >>
    /\ books = << >>
    /\ found = NoCall
    /\ data = NoData
    /\ built = NotBuilt
    /\ reads = NotRead
    /\ outcome = Running
    /\ plan = << >>
    /\ overtaken = FALSE

\* fetch_active_markets: the listing request answers (status_ok) or
\* raise_for_status raises; the records that pass the filters are returned
\* as Markets.
FetchActiveMarkets(status_ok) ==
    /\ pc = "listing"
    /\ listed = "idle"
    /\ LET r == ListMarkets(raw_markets)
       IN IF status_ok /\ r.exc = "ok"
          THEN markets' = r.markets /\ listed' = "returned"
          ELSE markets' = markets /\ listed' = "raised"
    /\ UNCHANGED << raw_markets, pc, idx, opportunities, fetchVars, detectVars,
                    bookVars, outcome, planVars >>

NextListing == \E status_ok \in BOOLEAN : FetchActiveMarkets(status_ok)

SpecListing == InitListing /\ [][NextListing]_vars


\* ------------------------------------------------------------ fixed outcomes

\* A scan in which what each request will be answered is fixed beforehand,
\* position by position, so that runs differ only in the order in which the
\* retrievals start and complete.  Markets share tokens: the identifiers
\* alternate between the two of TokenIds.
PlanResponses ==
    {Response("timeout", NoData), Response("json", PayA), Response("json", PayB),
     Response("json", PayArray)}

PlannedMarketsOfShape(shape) ==
    [m \in 1..Len(shape) |->
        Market(QuestionNames[m],
               [j \in 1..shape[m] |->
                   TokenNames[((SumN(SubSeq(shape, 1, m - 1)) + j - 1) % 2) + 1]])]

PlannedMarketLists ==
    {PlannedMarketsOfShape(shape) :
        shape \in {sh \in SeqsUpTo(0..MaxOutcomes, MaxMarkets) : SumN(sh) <= MaxPlanned}}

InitPlanned ==
    /\ markets \in PlannedMarketLists
    /\ plan \in [1..Len(AllTokenIds(markets)) -> PlanResponses]
    /\ overtaken = FALSE
    /\ token_ids = << >>
    /\ semaphore = 0
    /\ task = << >>
    /\ results = << >>
    /\ batch = "idle"
    /\ orderbooks = NoBooks
    /\ pc = "start"
    /\ idx = 0
    /\ opportunities = << >>
    /\ books = << >>
    /\ found = NoCall
    /\ data = NoData
    /\ built = NotBuilt
    /\ reads = NotRead
    /\ raw_markets = << >>
    /\ listed = "idle"
    /\ outcome = Running

\* Mutant of CompletePlanned: a result is stored in arrival order, at the
\* first position that has none yet, as asyncio.as_completed would hand
\* them over.
CompleteInArrivalOrder(i) ==
    /\ batch = "running"
    /\ task[i] = "inflight"
    /\ LET r == fetch_orderbook(plan[i], token_ids[i])
           slot == CHOOSE j \in DOMAIN results :
                      /\ results[j].k = "pending"
                      /\ \A h \in DOMAIN results : results[h].k = "pending" => j <= h
       IN /\ results' = [results EXCEPT ![slot] = r]
          /\ batch' = IF r.k = "raised" THEN "raised" ELSE batch
    /\ semaphore' = semaphore + 1
    /\ task' = [task EXCEPT ![i] = "done"]
    /\ overtaken' = (overtaken \/ \E j \in 1..(i - 1) : task[j] # "done")
    /\ UNCHANGED << token_ids, orderbooks, plan, scanVars, detectVars, bookVars,
                    listVars, outcome >>

\* Complete(i, resp) with the response the plan holds for position i; it is
\* noted when the retrieval finishes ahead of one earlier in the list.
CompletePlanned(i) ==
    /\ batch = "running"
    /\ task[i] = "inflight"
    /\ LET r == fetch_orderbook(plan[i], token_ids[i])
       IN /\ results' = [results EXCEPT ![i] = r]
          /\ batch' = IF r.k = "raised" THEN "raised" ELSE batch
    /\ semaphore' = semaphore + 1
    /\ task' = [task EXCEPT ![i] = "done"]
    /\ overtaken' = (overtaken \/ \E j \in 1..(i - 1) : task[j] # "done")
    /\ UNCHANGED << token_ids, orderbooks, plan, scanVars, detectVars, bookVars,
                    listVars, outcome >>

NextPlanned ==
    \/ ScanCollect
    \/ BatchStart
    \/ \E i \in DOMAIN task : Acquire(i)
    \/ \E i \in DOMAIN task : CompletePlanned(i)
    \/ BatchReturn
    \/ ScanResume
    \/ ScanAbort
    \/ MarketStep
    \/ ScanReturn

SpecPlanned == InitPlanned /\ [][NextPlanned]_vars


\* ============================================================ claims

Positions == 1..Len(token_ids)
Succeeded == {i \in DOMAIN results : results[i].k = "book"}
Failed == {i \in DOMAIN results : results[i].k \in {"none", "raised"}}

\* ------------------------------------------------------------ C1

\* C1: while fetch_orderbooks_batch runs, the number of retrievals in flight
\* never exceeds BATCH_SIZE, whatever the order of starts and completions.
C1_InFlightBounded == Cardinality(InFlight) <= BATCH_SIZE /\ semaphore >= 0

\* The limit is reached while a completed retrieval has freed and refilled a
\* slot and another token still waits.
C1_Witness ==
    /\ Cardinality(InFlight) = BATCH_SIZE
    /\ \E i \in DOMAIN task : task[i] = "done"
    /\ \E i \in DOMAIN task : task[i] = "waiting"

\* ------------------------------------------------------------ C2

\* C2: a failed retrieval of one token (timeout, transport error, HTTP error
\* status, malformed payload) is swallowed: the batch call never raises or
\* stops early, a token whose retrievals all failed is absent from the
\* mapping, and every token with a successful retrieval is present.
C2_FailureSwallowed ==
    /\ batch # "raised"
    /\ batch = "returned" =>
          /\ \A i \in Positions : task[i] = "done"
          /\ \A i \in Succeeded : token_ids[i] \in DOMAIN orderbooks
          /\ \A t \in DOMAIN orderbooks : \E i \in Succeeded : token_ids[i] = t

\* ------------------------------------------------------------ C3

HasAllBooks(market, obs) ==
    \A i \in 1..Len(market.tokens) : market.tokens[i] \in DOMAIN obs

SkippedForMissingBook(market, obs) ==
    Len(market.tokens) >= 2 /\ ~HasAllBooks(market, obs)

\* The first n markets without those that lack a required book.
KeptMarkets(n) ==
    SelectSeq(SubSeq(markets, 1, n),
              LAMBDA m : ~SkippedForMissingBook(m, orderbooks))

\* The detection pass over ms: the opportunities in discovery order, or the
\* exception of the first detector call that raises.
RECURSIVE Detected(_, _)
Detected(ms, obs) ==
    IF ms = << >> THEN Returns("scan", << >>)
    ELSE LET first == ProcessMarket(Head(ms), obs)
             rest == Detected(Tail(ms), obs)
         IN IF first.exc # "ok" THEN Raises("scan", first.exc)
            ELSE IF rest.exc # "ok" THEN rest
            ELSE Returns("scan", first.opps \o rest.opps)

\* C4: a market with a missing book is skipped entirely: handling it adds
\* nothing and raises nothing, and the scan's opportunities (or the
\* exception of another market's detector) are those of the same scan
\* without the skipped markets.
C4_MissingBookSkipsMarket ==
    /\ pc = "detect" =>
          /\ Detected(KeptMarkets(idx - 1), orderbooks).exc = "ok"
          /\ opportunities = Detected(KeptMarkets(idx - 1), orderbooks).opps
    /\ pc = "returned" =>
          opportunities
             = SortByProfit(Detected(KeptMarkets(Len(markets)), orderbooks).opps)
    /\ (pc = "raised" /\ batch = "returned") =>
          /\ ~SkippedForMissingBook(markets[idx], orderbooks)
          /\ Detected(KeptMarkets(idx), orderbooks).exc # "ok"

\* A scan returns opportunities of one market after skipping another that
\* had one of its books and lacked the other.
C4_Witness ==
    /\ pc = "returned"
    /\ opportunities # << >>
    /\ \E m \in 1..Len(markets) :
          /\ SkippedForMissingBook(markets[m], orderbooks)
          /\ \E i \in 1..Len(markets[m].tokens) :
                markets[m].tokens[i] \in DOMAIN orderbooks

\* ------------------------------------------------------------ C5

\* C5: the list scan_markets returns is in non-increasing order of
\* profit_pct.
C5_SortedByProfit ==
    pc = "returned" =>
       \A i \in 1..(Len(opportunities) - 1) :
          opportunities[i].profit_pct >= opportunities[i + 1].profit_pct

\* A returned list whose most profitable entry was discovered after a less
\* profitable one of an earlier market.
C5_Witness ==
    /\ pc = "returned"
    /\ Len(opportunities) >= 2
    /\ opportunities[1].market_question = QuestionNames[2]
    /\ \E i \in 2..Len(opportunities) :
          /\ opportunities[i].market_question = QuestionNames[1]
          /\ opportunities[i].profit_pct < opportunities[1].profit_pct

\* ------------------------------------------------------------ C6

\* out is acc reordered, entry for entry, with entries of equal profit in
\* the order they have in acc.
IsStableReordering(acc, out) ==
    /\ Len(out) = Len(acc)
    /\ \E f \in [1..Len(acc) -> 1..Len(acc)] :
          /\ \A i, j \in 1..Len(acc) : f[i] = f[j] => i = j
          /\ \A i \in 1..Len(acc) : out[i] = acc[f[i]]
          /\ \A i, j \in 1..Len(acc) :
                (i < j /\ out[i].profit_pct = out[j].profit_pct) => f[i] < f[j]

\* C6: the final sort is stable and only reorders: the returned list is a
\* permutation of the accumulated detector outputs, and entries of equal
\* profit_pct keep their discovery order.
C6_StableSort ==
    [][(pc = "detect" /\ pc' = "returned")
          => IsStableReordering(opportunities, opportunities')]_vars

\* A returned list where entries of two markets tie on profit while a later
\* discovery leads the list.
C6_Witness ==
    /\ pc = "returned"
    /\ Len(opportunities) >= 3
    /\ opportunities[1].market_question = QuestionNames[2]
    /\ \E i, j \in 1..Len(opportunities) :
          /\ i < j
          /\ opportunities[i].profit_pct = opportunities[j].profit_pct
          /\ opportunities[i].market_question = QuestionNames[1]
          /\ opportunities[j].market_question = QuestionNames[2]

\* ------------------------------------------------------------ C7 - C10

HasPrice(x) == x.exc = "ok" /\ x.k = "num"

CountOf(opps, arb_type) ==
    Cardinality({i \in 1..Len(opps) : opps[i].arb_type = arb_type})

\* Both books have a best ask, the asks sum to less than 1.0 and the profit
\* reaches the threshold.
BinaryBuyDue ==
    /\ HasPrice(best_ask(books[1])) /\ HasPrice(best_ask(books[2]))
    /\ best_ask(books[1]).v + best_ask(books[2]).v < ONE
    /\ ONE - (best_ask(books[1]).v + best_ask(books[2]).v) >= MIN_PROFIT_THRESHOLD

\* Both books have a best bid, the bids sum to more than 1.0 and the profit
\* reaches the threshold.
BinarySellDue ==
    /\ HasPrice(best_bid(books[1])) /\ HasPrice(best_bid(books[2]))
    /\ best_bid(books[1]).v + best_bid(books[2]).v > ONE
    /\ (best_bid(books[1]).v + best_bid(books[2]).v) - ONE >= MIN_PROFIT_THRESHOLD

\* C7: check_binary_arbitrage emits exactly one BUY opportunity if and only
\* if both books have a best ask, their sum is below 1.0 and the profit is
\* at least the threshold; in every other case it emits no BUY opportunity,
\* and it raises no error.
C7_BinaryBuyRule ==
    found.call = "binary" =>
       /\ found.exc = "ok"
       /\ BinaryBuyDue => CountOf(found.opps, "BUY") = 1
       /\ ~BinaryBuyDue => CountOf(found.opps, "BUY") = 0

\* C8: check_binary_arbitrage emits exactly one SELL opportunity if and
\* only if both books have a best bid, their sum is above 1.0 and the profit
\* is at least the threshold, whatever the buy side decides; a call returns
\* zero, one or two opportunities, BUY before SELL.
C8_BinarySellRule ==
    found.call = "binary" =>
       /\ found.exc = "ok"
       /\ BinarySellDue => CountOf(found.opps, "SELL") = 1
       /\ ~BinarySellDue => CountOf(found.opps, "SELL") = 0
       /\ Len(found.opps) <= 2
       /\ Len(found.opps) = 2 =>
             found.opps[1].arb_type = "BUY" /\ found.opps[2].arb_type = "SELL"

AllHavePrice(vals) == \A i \in 1..Len(vals) : HasPrice(vals[i])

MultiBuyDue ==
    LET asks == [i \in 1..Len(books) |-> best_ask(books[i])]
    IN /\ AllHavePrice(asks)
       /\ SumV(asks) < ONE
       /\ ONE - SumV(asks) >= MIN_PROFIT_THRESHOLD

MultiSellDue ==
    LET bids == [i \in 1..Len(books) |-> best_bid(books[i])]
    IN /\ AllHavePrice(bids)
       /\ SumV(bids) > ONE
       /\ SumV(bids) - ONE >= MIN_PROFIT_THRESHOLD

\* A MULTI opportunity carries the ask sum in yes_price when the buy side
\* found it, the bid sum in no_price when the sell side did.
MultiBuyFound(opps) ==
    {i \in 1..Len(opps) : opps[i].arb_type = "MULTI" /\ opps[i].no_price = 0}
MultiSellFound(opps) ==
    {i \in 1..Len(opps) : opps[i].arb_type = "MULTI" /\ opps[i].no_price # 0}

\* C9: check_multi_outcome_arbitrage decides each side all-or-nothing: the
\* buy-detected MULTI opportunity is emitted if and only if every book has a
\* best ask, the asks sum to less than 1.0 and the profit reaches the
\* threshold; the sell side likewise on the bids; a side on which a book
\* lacks its best price emits nothing.
C9_MultiAllOrNothing ==
    found.call = "multi" =>
       /\ found.exc = "ok"
       /\ Cardinality(MultiBuyFound(found.opps)) = (IF MultiBuyDue THEN 1 ELSE 0)
       /\ Cardinality(MultiSellFound(found.opps)) = (IF MultiSellDue THEN 1 ELSE 0)

\* The entry of a ladder at the best price: highest for bids, lowest for
\* asks, the first of equals.
BestEntry(ladder, highest) ==
    LET key(i) == SortKey(ladder[i]).v
        best == {i \in 1..Len(ladder) :
                    \A j \in 1..Len(ladder) :
                       IF highest THEN key(i) >= key(j) ELSE key(i) <= key(j)}
    IN ladder[CHOOSE i \in best : \A j \in best : i <= j]

\* The smallest size at the best price over all books, asks or bids.
SmallestBestSize(bks, bidSide) ==
    LET size(i) == IF bidSide THEN BestEntry(bks[i].bids, TRUE).size.v
                   ELSE BestEntry(bks[i].asks, FALSE).size.v
    IN CHOOSE n \in {size(i) : i \in 1..Len(bks)} :
          \A i \in 1..Len(bks) : n <= size(i)

SellDetected(o) == o.arb_type = "SELL" \/ (o.arb_type = "MULTI" /\ o.no_price # 0)

\* C10: every opportunity a detector emits has max_size equal to the
\* smallest size at the best price over all books of the market, on the
\* side that was detected, and max_profit_usd equal to profit_pct times
\* max_size.
C10_SizeIsMinimum ==
    (found.call \in {"binary", "multi"} /\ found.exc = "ok") =>
       \A i \in 1..Len(found.opps) :
          LET o == found.opps[i]
          IN /\ o.max_size = SmallestBestSize(books, SellDetected(o))
             /\ o.max_profit_usd = o.profit_pct * o.max_size

\* Both detectors emit an opportunity whose size is not the first book's:
\* a buy-side one of three books, a sell-side one of two.
C10_Witness ==
    /\ found.exc = "ok"
    /\ \E i \in 1..Len(found.opps) :
          LET o == found.opps[i]
          IN /\ o.arb_type = "MULTI"
             /\ o.no_price = 0
             /\ o.max_size < best_ask_size(books[1]).v
             /\ o.max_profit_usd > 0

\* ------------------------------------------------------------ C11 - C14

\* The ladder is in order of the numeric price key: descending when reverse,
\* ascending otherwise.
InPriceOrder(ladder, reverse) ==
    \A i \in 1..(Len(ladder) - 1) :
       IF reverse THEN SortKey(ladder[i]).v >= SortKey(ladder[i + 1]).v
       ELSE SortKey(ladder[i]).v <= SortKey(ladder[i + 1]).v

\* price is a number no entry of the raw ladder beats (bids: none higher,
\* asks: none lower) and size is the size of a raw entry at that price.
BestOfLadder(raw, price, size, highest) ==
    /\ HasPrice(price)
    /\ \A i \in 1..Len(raw) :
          raw[i].price.k = "str" =>
             IF highest THEN price.v >= raw[i].price.v ELSE price.v <= raw[i].price.v
    /\ HasPrice(size)
    /\ \E i \in 1..Len(raw) : raw[i] = E(price.v, size.v)

\* C11: after construction from any raw ladders in any input order the bids
\* are in descending and the asks in ascending order of numeric price, so
\* best_bid is at least every bid price and best_ask at most every ask
\* price, and best_bid_size / best_ask_size are the sizes of those entries.
C11_BestIsExtreme ==
    reads.read =>
       /\ InPriceOrder(built.book.bids, TRUE)
       /\ InPriceOrder(built.book.asks, FALSE)
       /\ data.bids # << >> =>
             BestOfLadder(data.bids, reads.best_bid, reads.best_bid_size, TRUE)
       /\ data.asks # << >> =>
             BestOfLadder(data.asks, reads.best_ask, reads.best_ask_size, FALSE)


\* C12: an empty ladder gives None for its best price and its best size,
\* never 0; a ladder whose best entry has price 0 gives the number 0 as its
\* best price: absence and zero are different values.
C12_AbsentIsNotZero ==
    reads.read =>
       /\ data.bids = << >> =>
             reads.best_bid = Absent /\ reads.best_bid_size = Absent
       /\ data.asks = << >> =>
             reads.best_ask = Absent /\ reads.best_ask_size = Absent
       /\ (data.bids # << >> /\ built.book.bids[1].price = Str(0)) =>
             reads.best_bid = Val(0)
       /\ (data.asks # << >> /\ built.book.asks[1].price = Str(0)) =>
             reads.best_ask = Val(0)
       /\ Absent # Val(0)

\* A book with no bids whose lowest ask, given second, has price 0.
C12_Witness ==
    /\ reads.read
    /\ data.bids = << >>
    /\ reads.best_bid = Absent
    /\ Len(data.asks) = 2
    /\ data.asks[2].price = Str(0)
    /\ data.asks[1].price.k = "str" /\ data.asks[1].price.v > 0
    /\ reads.best_ask = Val(0)

\* The price an entry is ordered by when a missing or unparsable price
\* counts as 0.
PriceOrZero(e) == IF e.price.k = "str" THEN e.price.v ELSE 0

\* out holds exactly the entries of raw, sizes included, in the order of
\* PriceOrZero (descending when reverse).
IsOrderedCopy(raw, out, reverse) ==
    /\ Len(out) = Len(raw)
    /\ \E f \in [1..Len(raw) -> 1..Len(raw)] :
          /\ \A i, j \in 1..Len(raw) : f[i] = f[j] => i = j
          /\ \A i \in 1..Len(raw) : out[i] = raw[f[i]]
    /\ \A i \in 1..(Len(out) - 1) :
          IF reverse THEN PriceOrZero(out[i]) >= PriceOrZero(out[i + 1])
          ELSE PriceOrZero(out[i]) <= PriceOrZero(out[i + 1])

HasUnparsablePrice(ladder) == \E i \in 1..Len(ladder) : ladder[i].price.k = "badstr"
HasMissingPrice(ladder) == \E i \in 1..Len(ladder) : ladder[i].price.k = "nokey"

\* C13 as claimed: construction from raw ladders succeeds also when an entry
\* has an unparsable price; that entry is ordered as if its price were 0 and
\* every entry keeps its input size.
C13_UnparsablePriceSortsAsZero ==
    built # NotBuilt =>
       /\ built.exc = "ok"
       /\ IsOrderedCopy(data.bids, built.book.bids, TRUE)
       /\ IsOrderedCopy(data.asks, built.book.asks, FALSE)

\* C13 as amended: construction succeeds when no price is unparsable; an
\* entry without a price key is ordered as if its price were 0 and every
\* entry keeps its input size; an unparsable price makes the construction
\* raise ValueError.
C13_MissingPriceSortsAsZero ==
    built # NotBuilt =>
       IF HasUnparsablePrice(data.bids) \/ HasUnparsablePrice(data.asks)
       THEN built.exc = "ValueError"
       ELSE /\ built.exc = "ok"
            /\ IsOrderedCopy(data.bids, built.book.bids, TRUE)
            /\ IsOrderedCopy(data.asks, built.book.asks, FALSE)

\* A constructed book whose ask without a price, given last, leads the
\* ladder with its size intact, and whose bid without a price ends it.
C13_Witness ==
    /\ built.exc = "ok"
    /\ Len(data.asks) = 2 /\ Len(data.bids) = 2
    /\ data.asks[2] = Entry(NoKey, Str(5))
    /\ data.asks[1].price.k = "str" /\ data.asks[1].price.v > 0
    /\ built.book.asks[1] = Entry(NoKey, Str(5))
    /\ data.bids[1] = Entry(NoKey, Str(5))
    /\ built.book.bids[2] = Entry(NoKey, Str(5))

\* The value of the first entry's field when the field is there, else None.
FirstOrAbsent(ladder, size) ==
    IF ladder = << >> THEN Absent
    ELSE LET x == IF size THEN ladder[1].size ELSE ladder[1].price
         IN IF x.k = "str" THEN Val(x.v) ELSE Absent

\* C14: on a constructed OrderBook the four accessors never raise: each
\* returns the value of the first entry or None, also when the first entry
\* lacks a price or a size field.
C14_AccessorsNeverRaise ==
    reads.read =>
       /\ reads.best_bid = FirstOrAbsent(built.book.bids, FALSE)
       /\ reads.best_ask = FirstOrAbsent(built.book.asks, FALSE)
       /\ reads.best_bid_size = FirstOrAbsent(built.book.bids, TRUE)
       /\ reads.best_ask_size = FirstOrAbsent(built.book.asks, TRUE)


\* ------------------------------------------------------------ C15

\* What the loop body owes for one market: the binary check of the first
\* token's book as side A and the second's as side B for exactly two tokens,
\* the multi-outcome check of all books in token order for three or more,
\* nothing for fewer than two tokens or when a book is missing.
Classified(market, obs) ==
    LET n == Len(market.tokens)
        book(i) == obs[market.tokens[i]]
    IN IF n < 2 \/ ~HasAllBooks(market, obs) THEN Returns("skip", << >>)
       ELSE IF n = 2 THEN check_binary_arbitrage(market.question, book(1), book(2))
       ELSE check_multi_outcome_arbitrage(market.question, [i \in 1..n |-> book(i)])

RECURSIVE ClassifiedAll(_, _)
ClassifiedAll(ms, obs) ==
    IF ms = << >> THEN << >>
    ELSE Classified(Head(ms), obs).opps \o ClassifiedAll(Tail(ms), obs)

\* C15: scan_markets classifies each market by its number of tokens:
\* exactly 2 gets the binary check (first token side A, second side B), 3 or
\* more the multi-outcome check with the books in token order, 0 or 1 is
\* skipped with no opportunity and no error.
C15_ClassifiedByTokenCount ==
    /\ pc = "detect" =>
          /\ \A k \in 1..(idx - 1) : Classified(markets[k], orderbooks).exc = "ok"
          /\ opportunities = ClassifiedAll(SubSeq(markets, 1, idx - 1), orderbooks)
    /\ (pc = "raised" /\ batch = "returned") =>
          /\ Len(markets[idx].tokens) >= 2
          /\ Classified(markets[idx], orderbooks).exc # "ok"

\* The pass is beyond a market of fewer than two tokens and a two-token
\* market whose opportunity tells side A from side B.
C15_Witness ==
    /\ pc = "detect"
    /\ idx = 3
    /\ Len(markets[1].tokens) < 2
    /\ Len(markets[2].tokens) = 2
    /\ \E i \in 1..Len(opportunities) :
          /\ opportunities[i].arb_type = "BUY"
          /\ opportunities[i].yes_price > opportunities[i].no_price

\* ------------------------------------------------------------ C16

\* C16: scan_markets calls the batched fetcher exactly once, with the token
\* identifiers of all markets together, and no detector check starts before
\* that call has returned with every retrieval settled.
C16_OneBatchBeforeDetection ==
    /\ [](/\ batch # "idle" => token_ids = AllTokenIds(markets)
          /\ pc \in {"detect", "returned"} =>
                /\ batch = "returned"
                /\ DOMAIN results = 1..Len(AllTokenIds(markets))
                /\ \A i \in DOMAIN results :
                      task[i] = "done" /\ results[i].k \in {"book", "none"})
    /\ [][/\ (batch # "running" /\ batch' = "running") => batch = "idle"
          /\ batch # "idle" => batch' # "idle"
          /\ opportunities' # opportunities => batch = "returned"]_vars

\* The detection pass has handled a first market after one batch call that
\* carried the tokens of two markets, more than the concurrency limit.
C16_Witness ==
    /\ pc = "detect"
    /\ idx = 2
    /\ Len(markets) = 2
    /\ markets[1].tokens # << >> /\ markets[2].tokens # << >>
    /\ Len(token_ids) > BATCH_SIZE
    /\ batch = "returned"
    /\ opportunities # << >>


\* ------------------------------------------------------------ C17

\* C17: every Market that fetch_active_markets returns, and so hands to
\* scan_markets, has at least two outcome tokens: a raw record that yields
\* zero or one (token id, outcome) pair is never included.
C17_ListedMarketsHaveTwoTokens ==
    listed = "returned" =>
       \A i \in 1..Len(markets) : Len(markets[i].tokens) >= 2


\* ------------------------------------------------------------ C18

C19_BatchEventuallyReturns ==
    /\ <>(batch = "returned")
    /\ \A i \in 1..MaxTokens :
          [](i \in DOMAIN task => <>(i \in DOMAIN task /\ task[i] = "done"))
    /\ [](batch = "returned" => semaphore = BATCH_SIZE)
    /\ [](batch = "running" => semaphore + Cardinality(InFlight) = BATCH_SIZE)
    /\ [][\A i \in DOMAIN task :
             i \in DOMAIN task' =>
                /\ task[i] = "done" => task'[i] = "done" /\ results'[i] = results[i]
                /\ task[i] = "inflight" => task'[i] \in {"inflight", "done"}]_vars

\* ------------------------------------------------------------ C20

\* The positions of token t whose retrieval succeeded.
SucceededFor(t) == {i \in Succeeded : token_ids[i] = t}

LastOf(S) == CHOOSE i \in S : \A j \in S : j <= i

\* C20: when the input list repeats a token, the token is a key of the
\* returned mapping if and only if one of its retrievals succeeded, and its
\* value is the book of the last successful occurrence in input order; a
\* failed occurrence neither removes nor replaces another occurrence's book.
C20_LastSuccessInInputOrder ==
    batch = "returned" =>
       \A i \in Positions :
          LET t == token_ids[i]
          IN /\ t \in DOMAIN orderbooks <=> SucceededFor(t) # {}
             /\ SucceededFor(t) # {} =>
                   orderbooks[t] = results[LastOf(SucceededFor(t))].book

\* A token given three times: two different books, then a failure after
\* them; the mapping holds the second book.
C20_Witness ==
    /\ batch = "returned"
    /\ \E i, j, k \in Positions :
          /\ i < j /\ j < k
          /\ token_ids[i] = token_ids[j] /\ token_ids[j] = token_ids[k]
          /\ results[i].k = "book" /\ results[j].k = "book" /\ results[k].k = "none"
          /\ results[i].book # results[j].book
          /\ orderbooks[token_ids[i]] = results[j].book


\* ------------------------------------------------------------ C21

\* The mapping when the first n retrievals are made one after the other in
\* input order, each answered as planned.
RECURSIVE BooksInTurn(_, _, _)
BooksInTurn(ids, answers, n) ==
    IF n = 0 THEN NoBooks
    ELSE LET before == BooksInTurn(ids, answers, n - 1)
             r == fetch_orderbook(answers[n], ids[n])
         IN IF r.k = "book"
            THEN [t \in DOMAIN before \cup {ids[n]} |->
                     IF t = ids[n] THEN r.book ELSE before[t]]
            ELSE before

\* Some planned answer ends in an exception fetch_orderbook does not catch.
PlanRaises(ids, answers) ==
    \E i \in 1..Len(ids) : fetch_orderbook(answers[i], ids[i]).k = "raised"

\* The scan of ms with its retrievals made one after the other.
ScanInTurn(ms, answers) ==
    Detected(ms, BooksInTurn(AllTokenIds(ms), answers, Len(AllTokenIds(ms))))

\* C21: for a fixed list of markets and a fixed outcome of each retrieval,
\* the mapping fetch_orderbooks_batch returns and the ordered list
\* scan_markets returns (or the exception either raises) are those of the
\* retrievals made one after the other in input order, under every order in
\* which the concurrent retrievals start and complete.
C21_IndependentOfInterleaving ==
    /\ batch = "returned" =>
          /\ ~PlanRaises(token_ids, plan)
          /\ orderbooks = BooksInTurn(token_ids, plan, Len(token_ids))
    /\ batch = "raised" => PlanRaises(token_ids, plan)
    /\ pc = "returned" =>
          /\ ScanInTurn(markets, plan).exc = "ok"
          /\ opportunities = SortByProfit(ScanInTurn(markets, plan).opps)
    /\ (pc = "raised" /\ batch = "returned") => ScanInTurn(markets, plan).exc # "ok"

\* A scan that returned opportunities although a retrieval finished ahead of
\* an earlier one and a token fetched twice got two different books.
C21_Witness ==
    /\ pc = "returned"
    /\ overtaken
    /\ opportunities # << >>
    /\ \E i, j \in Positions :
          /\ i < j
          /\ token_ids[i] = token_ids[j]
          /\ results[i].k = "book" /\ results[j].k = "book"
          /\ results[i].book # results[j].book


====
